---- MODULE Spec2Model ----
(***************************************************************************)
(* Uniform-compliance pipeline of deteccion-uniformes: the /detect         *)
(* handler of app.py and the UniformDetector methods of utils.py it calls  *)
(* (detect_uniform_elements, calculate_compliance, save_to_excel,          *)
(* save_to_google_sheets), with two /detect requests served concurrently   *)
(* by the Flask development server.                                        *)
(*                                                                         *)
(* Numbers: porcentaje is a Python float.  Every value the code computes   *)
(* is (k / 8) * 100 with k in 0..8, exact in binary floating point, so it  *)
(* is modelled exactly, in thousandths of a percent (Scale).               *)
(* Time: datetime.now() is read in whole seconds, the resolution of both   *)
(* strftime formats the code applies to it.                                *)
(***************************************************************************)
EXTENDS Integers, Sequences, FiniteSets, TLC

(***************************************************************************)
(* Bounds of the model.                                                    *)
(***************************************************************************)
\* Longest sequence of detected elements given to calculate_compliance in SpecEval.
MaxDet == 3
\* Last second the clock reaches.
MaxClock == 1
\* Most calls of save_to_google_sheets made in SpecSheets.
MaxCalls == 3

\* The requests in flight: two, the number the concurrency claims speak of.
Requests == {1, 2}

(***************************************************************************)
(* Program constants.                                                      *)
(***************************************************************************)
\* self.uniform_elements
uniform_elements ==
    <<"botas", "gafas", "guantes", "casco", "camisa", "polo", "pantalon", "carnet">>

ALLOWED_EXTENSIONS == {"png", "jpg", "jpeg"}

\* The extensions detect_uniform_elements accepts.
DETECT_EXTENSIONS == {"jpg", "jpeg", "png", "bmp"}

\* len(...) > 100
MAX_FIELD_LEN == 100

\* Thousandths: the unit porcentaje is kept in.
Scale == 1000

(***************************************************************************)
(* Strings.                                                                *)
(***************************************************************************)
\* str.lower(), on the strings the model uses.
Lower(s) ==
    CASE s = "Casco" -> "casco"
      [] s = "POLO" -> "polo"
      [] s = "JPG" -> "jpg"
      [] OTHER -> s

\* str.strip(), on the strings the model uses (only "  " has outer blanks).
Strip(s) == IF s = "  " THEN "" ELSE s

RECURSIVE Repeat(_, _)
Repeat(s, n) == IF n = 0 THEN "" ELSE s \o Repeat(s, n - 1)

\* ", ".join(items)
RECURSIVE Join(_)
Join(items) ==
    IF Len(items) = 0 THEN ""
    ELSE IF Len(items) = 1 THEN items[1]
    ELSE items[1] \o ", " \o Join(Tail(items))

SeqToSet(s) == {s[i] : i \in 1..Len(s)}

\* Sequences over S of length at most n.
SeqsUpTo(S, n) == UNION {[1..k -> S] : k \in 0..n}

(***************************************************************************)
(* calculate_compliance (utils.py).                                        *)
(***************************************************************************)
\* Mutant: the division done on integers, (len * 100) // len.
PorcentajeEntero(encontrados) ==
    ((Len(encontrados) * 100) \div Len(uniform_elements)) * Scale

\* (len(elementos_encontrados) / len(self.uniform_elements)) * 100
Porcentaje(encontrados) ==
    ((Len(encontrados) * Scale) \div Len(uniform_elements)) * 100

\* Mutant: the loop runs over the detections instead of the checklist.
EncontradosPorDeteccion(detected_names) ==
    SelectSeq(detected_names, LAMBDA e : e \in SeqToSet(uniform_elements))

\* for element in self.uniform_elements: if element in detected_names: append
Encontrados(detected_names) ==
    SelectSeq(uniform_elements, LAMBDA e : e \in SeqToSet(detected_names))

\* Mutant: the missing items taken as a set difference, which loses the
\* checklist order (here: comes out in the reverse order).
FaltantesPorConjunto(encontrados) ==
    LET falta == SelectSeq(uniform_elements, LAMBDA e : e \notin SeqToSet(encontrados))
    IN  [i \in 1..Len(falta) |-> falta[Len(falta) + 1 - i]]

\* [elem for elem in self.uniform_elements if elem not in elementos_encontrados]
Faltantes(encontrados) ==
    SelectSeq(uniform_elements, LAMBDA e : e \notin SeqToSet(encontrados))

\* Mutant: the percentage taken over the number of detections instead of
\* the number of checklist items.
calculate_compliance_sobre_detecciones(detected_elements) ==
    LET detected_names == [i \in 1..Len(detected_elements) |-> detected_elements[i].element]
        elementos_encontrados == Encontrados(detected_names)
        elementos_faltantes == Faltantes(elementos_encontrados)
    IN  [porcentaje |-> IF detected_names = <<>> THEN 0
                        ELSE ((Len(elementos_encontrados) * Scale) \div Len(detected_names)) * 100,
         encontrados |-> elementos_encontrados,
         faltantes |-> elementos_faltantes]

calculate_compliance(detected_elements) ==
    LET detected_names == [i \in 1..Len(detected_elements) |-> detected_elements[i].element]
        elementos_encontrados == Encontrados(detected_names)
        elementos_faltantes == Faltantes(elementos_encontrados)
    IN  [porcentaje |-> Porcentaje(elementos_encontrados),
         encontrados |-> elementos_encontrados,
         faltantes |-> elementos_faltantes]

\* Mutant: the percentage written without its decimal, f"{porcentaje:.0f}%".
FormatPorcentajeSinDecimal(p) == ToString((p + Scale \div 2) \div Scale) \o "%"

\* f"{porcentaje:.1f}%": one decimal, rounded to nearest.
FormatPorcentaje(p) ==
    LET tenths == (p * 10 + Scale \div 2) \div Scale
    IN  ToString(tenths \div 10) \o "." \o ToString(tenths % 10) \o "%"

(***************************************************************************)
(* Inputs of a /detect request.                                            *)
(***************************************************************************)
LongText == Repeat("x", MAX_FIELD_LEN + 1)
EdgeText == Repeat("x", MAX_FIELD_LEN)

\* request.form values, before strip(): two that pass the validation (the
\* second with a name of exactly MAX_FIELD_LEN characters) and one for each
\* way of failing it.
Form(aliado, nombre_tecnico) == [aliado |-> aliado, nombre_tecnico |-> nombre_tecnico]
MainForm == Form("acme", "ana")
EdgeForm == Form("acme", EdgeText)
BadForms ==
    {Form("", "ana"), Form("  ", "ana"), Form("acme", ""), Form("acme", "  "),
     Form("acme", LongText), Form(LongText, "ana")}

\* A file name: its text up to the last dot, whether it has a dot, and the
\* text after the last dot ("foto.jpg" is stem "foto", ext "jpg").
Name(stem, dot, ext) == [stem |-> stem, dot |-> dot, ext |-> ext]
EmptyName == Name("", FALSE, "")
\* "foto.JPG": a name both validations accept.
MainNames == {Name("foto", TRUE, "JPG")}
\* '' , ".jpg", "doc.gif", "scan.bmp", "foto"
OtherNames ==
    {EmptyName, Name("", TRUE, "jpg"), Name("doc", TRUE, "gif"),
     Name("scan", TRUE, "bmp"), Name("foto", FALSE, "")}

\* What the detector's predict answers for an image: the classes it finds.
Respuestas == {<<>>, <<"Casco", "polo">>, <<"mochila">>}
\* An image's content: whether cv2.imread can read it, and the answer.
Unreadable == [readable |-> FALSE, classes |-> <<>>]
Contents == {Unreadable} \cup [readable : {TRUE}, classes : Respuestas]

NoUpload == [present |-> FALSE, filename |-> EmptyName, content |-> Unreadable]
GoodUploads == [present : {TRUE}, filename : MainNames, content : Contents]
BadUploads ==
    {NoUpload} \cup [present : {TRUE}, filename : OtherNames, content : {Unreadable}]

\* An upload that passes every check and has two detections.
MainUpload ==
    [present |-> TRUE, filename |-> Name("foto", TRUE, "JPG"),
     content |-> [readable |-> TRUE, classes |-> <<"Casco", "polo">>]]

\* An upload that passes every check and in which nothing is detected.
BareUpload ==
    [present |-> TRUE, filename |-> Name("foto", TRUE, "JPG"),
     content |-> [readable |-> TRUE, classes |-> <<>>]]

\* The inputs of a request: every upload with the main form, every form
\* that fails the validation with the main upload, and the longest name
\* that passes it with the bare upload.
Inputs ==
    ({MainForm} \X (GoodUploads \cup BadUploads))
    \cup (BadForms \X {MainUpload})
    \cup ({EdgeForm} \X {BareUpload})

(***************************************************************************)
(* app.py helpers.                                                         *)
(***************************************************************************)
\* '.' in filename and filename.rsplit('.', 1)[1].lower() in ALLOWED_EXTENSIONS
allowed_file(filename) ==
    filename.dot /\ Lower(filename.ext) \in ALLOWED_EXTENSIONS

\* werkzeug's secure_filename: strips leading and trailing dots, so ".jpg"
\* becomes "jpg"; the other names of the model are already safe.
secure_filename(filename) ==
    IF filename.dot /\ filename.stem = ""
    THEN Name(filename.ext, FALSE, "")
    ELSE filename

\* image_path.lower().endswith(('.jpg', '.jpeg', '.png', '.bmp'))
ValidImageFormat(image_path) ==
    image_path.dot /\ Lower(image_path.ext) \in DETECT_EXTENSIONS

\* The paths an upload can be saved under.
Paths == {secure_filename(f) : f \in {n \in MainNames \cup OtherNames : allowed_file(n)}}

\* The validation of detect_uniform, lines 48-60: the error message of the
\* first check that fails, "" when all pass.
ValidationError(aliado, nombre_tecnico, uniforme_file) ==
    IF aliado = "" THEN "Debes ingresar el nombre del aliado."
    ELSE IF nombre_tecnico = "" THEN "Debes ingresar el nombre del tecnico."
    ELSE IF Len(nombre_tecnico) > MAX_FIELD_LEN \/ Len(aliado) > MAX_FIELD_LEN
    THEN "El nombre del tecnico o aliado es demasiado largo."
    ELSE IF ~uniforme_file.present \/ uniforme_file.filename = EmptyName
    THEN "No se envio la foto del uniforme."
    ELSE IF ~allowed_file(uniforme_file.filename)
    THEN "Solo se permiten imagenes JPG, JPEG o PNG."
    ELSE ""

(***************************************************************************)
(* State.                                                                  *)
(***************************************************************************)
VARIABLES
    now,            \* the last answer of datetime.now(), in seconds
    model_loaded,   \* detector.model is not None (set by load_model at start-up)
    images,         \* images/: path -> the file saved there
    file,           \* resultados_uniformes.xlsx
    backups,        \* resultados_uniformes_backup_<timestamp>.xlsx files
    sheet,          \* the rows of the remote spreadsheet
    pc,             \* where each request is in detect_uniform
    form,           \* request.form of each request
    upload,         \* request.files['uniforme'] of each request
    detections,     \* the result of detect_uniform_elements
    verdict,        \* porcentaje, elementos_encontrados, elementos_faltantes
    timestamp,      \* timestamp = datetime.now() of line 96
    df_existente,   \* what save_to_excel read from the file
    excel_result,   \* what save_to_excel returned
    sheets_result,  \* what save_to_google_sheets returned
    response,       \* what detect_uniform returned to the caller
    trace,          \* history: the calls each request made, in order
    rows_before,    \* history: the rows of the file when the request arrived
    sheets_env,     \* SpecSheets: what the credentials are resolved from
    sheets_log,     \* SpecSheets: history, the save_to_google_sheets calls made
    evalIn,         \* SpecEval: the argument of calculate_compliance
    evalOut         \* SpecEval: its result

vars ==
    <<now, model_loaded, images, file, backups, sheet, pc, form, upload,
      detections, verdict, timestamp, df_existente, excel_result,
      sheets_result, response, trace, rows_before, sheets_env, sheets_log,
      evalIn, evalOut>>

disk == <<images, file, backups, sheet>>
locals ==
    <<detections, verdict, timestamp, df_existente, excel_result, sheets_result>>
sheetsVars == <<sheets_env, sheets_log>>
evalVars == <<evalIn, evalOut, sheetsVars>>

\* A file of images/: whether it exists, the request whose upload it holds
\* (0: a file from before), and whether it is older than dias * 86400 seconds.
NoImage == [exists |-> FALSE, owner |-> 0, old |-> FALSE]
OldImage == [exists |-> TRUE, owner |-> 0, old |-> TRUE]

\* The tabular file: absent, unreadable (corrupt or not a workbook), or a
\* workbook with rows.
Absent == [kind |-> "absent", rows |-> <<>>]
Corrupt == [kind |-> "corrupt", rows |-> <<>>]
Workbook(rows) == [kind |-> "ok", rows |-> rows]

\* A row written by an earlier run of the program.
OldRow ==
    [Fecha |-> 0, Aliado |-> "acme", Nombre |-> "eva",
     Tiene |-> "casco", Falta |-> "botas, gafas, guantes, camisa, polo, pantalon, carnet",
     Porcentaje |-> "12.5%"]

EmptyResult == [detected_elements |-> <<>>, carnet_box |-> 0, total_detections |-> 0]
NoVerdict == [porcentaje |-> 0, encontrados |-> <<>>, faltantes |-> <<>>]
NotRead == [kind |-> "none", rows |-> <<>>]
NoResponse == [page |-> "", error |-> "", porcentaje |-> 0, detectados |-> "", faltantes |-> "", fecha |-> 0]

\* render_template('index.html', error=...)
IndexPage(error) == [NoResponse EXCEPT !.page = "index.html", !.error = error]
\* The request ended with an exception that left detect_uniform.
Unhandled == [NoResponse EXCEPT !.page = "exception"]

InitPipeline ==
    /\ now = 0
    /\ model_loaded \in BOOLEAN
    /\ images \in [Paths -> {NoImage}] \cup
                  {[q \in Paths |-> IF q = Name("foto", TRUE, "JPG") THEN OldImage ELSE NoImage]}
    /\ file \in {Absent, Corrupt, Workbook(<<OldRow>>)}
    /\ backups = {}
    /\ sheet = <<>>
    /\ pc = [p \in Requests |-> "idle"]
    /\ form = [p \in Requests |-> [aliado |-> "", nombre_tecnico |-> ""]]
    /\ upload = [p \in Requests |-> NoUpload]
    /\ detections = [p \in Requests |-> EmptyResult]
    /\ verdict = [p \in Requests |-> NoVerdict]
    /\ timestamp = [p \in Requests |-> 0]
    /\ df_existente = [p \in Requests |-> NotRead]
    /\ excel_result = [p \in Requests |-> "none"]
    /\ sheets_result = [p \in Requests |-> "none"]
    /\ response = [p \in Requests |-> NoResponse]
    /\ trace = [p \in Requests |-> <<>>]
    /\ rows_before = [p \in Requests |-> 0]

\* The process environment of the pipeline specifications: the library
\* installed, no inline payload, a usable credential file.
PipelineEnv == [available |-> TRUE, payload |-> "unset", key_file |-> "valid"]

Init ==
    /\ InitPipeline
    /\ sheets_env = PipelineEnv
    /\ sheets_log = <<>>
    /\ evalIn = <<>>
    /\ evalOut = NoVerdict

\* datetime.now() answers t: the clock never runs backwards, and `now` is
\* its last answer.
datetime_now(t) ==
    /\ t \in now..MaxClock
    /\ now' = t

\* The request ends with `page`.
Return(p, page) ==
    /\ response' = [response EXCEPT ![p] = page]
    /\ pc' = [pc EXCEPT ![p] = "done"]

Goto(p, label) ==
    /\ pc' = [pc EXCEPT ![p] = label]
    /\ UNCHANGED response

Called(p, name) == trace' = [trace EXCEPT ![p] = Append(@, name)]

\* The image path of request p: os.path.join(UPLOAD_FOLDER, secure_filename(...)).
uniforme_path(p) == secure_filename(upload[p].filename)

(***************************************************************************)
(* detect_uniform, lines 41-60: the form is read, stripped and validated.  *)
(***************************************************************************)
Receive(p) ==
    /\ pc[p] = "idle"
    \* Requests are alike: they are numbered in their order of arrival.
    /\ \A q \in Requests : q < p => pc[q] # "idle"
    /\ \E in \in Inputs :
          LET f == in[1]
              u == in[2]
              aliado == Strip(f.aliado)
              nombre_tecnico == Strip(f.nombre_tecnico)
              error == ValidationError(aliado, nombre_tecnico, u)
          IN  /\ form' = [form EXCEPT ![p] = [aliado |-> aliado, nombre_tecnico |-> nombre_tecnico]]
              /\ upload' = [upload EXCEPT ![p] = u]
              /\ IF error # "" THEN Return(p, IndexPage(error)) ELSE Goto(p, "cleanup")
    /\ rows_before' = [rows_before EXCEPT ![p] = Len(file.rows)]
    /\ UNCHANGED <<now, model_loaded, disk, locals, trace, evalVars>>

(***************************************************************************)
(* limpiar_imagenes_antiguas(UPLOAD_FOLDER), line 66, outside any try:     *)
(* os.listdir, os.path.getmtime or os.remove may raise, and the exception  *)
(* leaves detect_uniform.                                                  *)
(***************************************************************************)
limpiar_imagenes_antiguas(folder) ==
    [q \in DOMAIN folder |-> IF folder[q].exists /\ folder[q].old THEN NoImage ELSE folder[q]]

Cleanup(p) ==
    /\ pc[p] = "cleanup"
    /\ \E raises \in BOOLEAN :
          IF raises
          THEN /\ Return(p, Unhandled)
               /\ UNCHANGED images
          ELSE /\ images' = limpiar_imagenes_antiguas(images)
               /\ Goto(p, "save")
    /\ UNCHANGED <<now, model_loaded, file, backups, sheet, form, upload, locals,
                   trace, rows_before, evalVars>>

(***************************************************************************)
(* uniforme_file.save(uniforme_path), lines 68-73.                         *)
(***************************************************************************)
SaveUpload(p) ==
    /\ pc[p] = "save"
    /\ \E raises \in BOOLEAN :
          IF raises
          THEN /\ Return(p, IndexPage("No se pudo guardar la imagen"))
               /\ UNCHANGED images
          ELSE /\ images' = [images EXCEPT ![uniforme_path(p)] =
                                [exists |-> TRUE, owner |-> p, old |-> FALSE]]
               /\ Goto(p, "detect")
    /\ UNCHANGED <<now, model_loaded, file, backups, sheet, form, upload, locals,
                   trace, rows_before, evalVars>>

(***************************************************************************)
(* detect_uniform_elements (utils.py), called at line 78 of app.py.        *)
(***************************************************************************)
\* The loop over prediction.json()['predictions']: class names lowercased,
\* the bounding box of a detection stood for by its position, carnet_box the
\* box of the first 'carnet' (0: None).
Normalize(predictions) ==
    LET detected_elements ==
            [i \in 1..Len(predictions) |-> [element |-> Lower(predictions[i]), bbox |-> i]]
        carnets == {i \in 1..Len(predictions) : detected_elements[i].element = "carnet"}
    IN  [detected_elements |-> detected_elements,
         carnet_box |-> IF carnets = {} THEN 0 ELSE CHOOSE i \in carnets : \A j \in carnets : i <= j,
         total_detections |-> Len(detected_elements)]

\* The outcome of a call: the exception raised ("" when it returns), the
\* value returned, and whether self.model.predict was called.
Outcome(raised, result, predicted) ==
    [raised |-> raised, result |-> result, predicted |-> predicted]

\* Mutant: an unset model raises instead of returning the empty result.
detect_uniform_elements_sin_modelo(image_path, predict_raises) ==
    LET image == images[image_path]
        content == upload[image.owner].content
    IN  IF ~image.exists THEN Outcome("FileNotFoundError", EmptyResult, FALSE)
        ELSE IF ~ValidImageFormat(image_path) THEN Outcome("ValueError", EmptyResult, FALSE)
        ELSE IF ~model_loaded THEN Outcome("AttributeError", EmptyResult, FALSE)
        ELSE IF ~content.readable THEN Outcome("ValueError", EmptyResult, FALSE)
        ELSE IF predict_raises THEN Outcome("", EmptyResult, TRUE)
        ELSE Outcome("", Normalize(content.classes), TRUE)

detect_uniform_elements(image_path, predict_raises) ==
    LET image == images[image_path]
        content == upload[image.owner].content
    IN  IF ~image.exists THEN Outcome("FileNotFoundError", EmptyResult, FALSE)
        ELSE IF ~ValidImageFormat(image_path) THEN Outcome("ValueError", EmptyResult, FALSE)
        ELSE IF ~model_loaded THEN Outcome("", EmptyResult, FALSE)
        ELSE IF ~content.readable THEN Outcome("ValueError", EmptyResult, FALSE)
        ELSE IF predict_raises THEN Outcome("", EmptyResult, TRUE)
        ELSE Outcome("", Normalize(content.classes), TRUE)

\* Mutant: the request also stops when no detection is on the checklist.
NothingDetectedOnChecklist(d) ==
    \A i \in DOMAIN d.detected_elements :
        d.detected_elements[i].element \notin SeqToSet(uniform_elements)

\* Mutant: the test for zero detections never fires.
NothingDetectedNever(d) == d.total_detections < 0

\* not detections or detections.get('total_detections', 0) == 0
NothingDetected(d) == d.total_detections = 0

Detect(p) ==
    /\ pc[p] = "detect"
    /\ \E predict_raises \in BOOLEAN :
          LET out == detect_uniform_elements(uniforme_path(p), predict_raises)
          IN  /\ detections' = [detections EXCEPT ![p] = out.result]
              /\ trace' = [trace EXCEPT ![p] =
                              IF out.predicted
                              THEN @ \o <<"detect_uniform_elements", "predict">>
                              ELSE Append(@, "detect_uniform_elements")]
              /\ IF out.raised # "" THEN Return(p, IndexPage("Error: " \o out.raised))
                 ELSE IF NothingDetected(out.result)
                 THEN Return(p, IndexPage("No se detectaron elementos del uniforme."))
                 ELSE Goto(p, "evaluate")
    /\ UNCHANGED <<now, model_loaded, disk, form, upload, verdict, timestamp,
                   df_existente, excel_result, sheets_result, rows_before, evalVars>>

(***************************************************************************)
(* Lines 87-96: calculate_compliance, then timestamp = datetime.now().     *)
(***************************************************************************)
Evaluate(p) ==
    /\ pc[p] = "evaluate"
    /\ verdict' = [verdict EXCEPT ![p] = calculate_compliance(detections[p].detected_elements)]
    /\ \E t \in 0..MaxClock :
          /\ datetime_now(t)
          /\ timestamp' = [timestamp EXCEPT ![p] = t]
    /\ Called(p, "calculate_compliance")
    /\ Goto(p, "excel_read")
    /\ UNCHANGED <<model_loaded, disk, form, upload, detections, df_existente,
                   excel_result, sheets_result, rows_before, evalVars>>

(***************************************************************************)
(* save_to_excel (utils.py), called at line 99 of app.py.                  *)
(***************************************************************************)
\* The six values of a record, as both sinks build them.
Registro(nombre, elementos_encontrados, elementos_faltantes, porcentaje, fecha, aliado) ==
    [Fecha |-> fecha,
     Aliado |-> aliado,
     Nombre |-> nombre,
     Tiene |-> IF elementos_encontrados # <<>> THEN Join(elementos_encontrados) ELSE "Ninguno",
     Falta |-> IF elementos_faltantes # <<>> THEN Join(elementos_faltantes) ELSE "Completo",
     Porcentaje |-> FormatPorcentaje(porcentaje)]

nuevo_registro(p) ==
    Registro(form[p].nombre_tecnico, verdict[p].encontrados, verdict[p].faltantes,
             verdict[p].porcentaje, timestamp[p], form[p].aliado)

\* Mutant: the new record is put before the rows read.
df_final_al_principio(p) ==
    IF df_existente[p].kind = "ok"
    THEN <<nuevo_registro(p)>> \o df_existente[p].rows
    ELSE <<nuevo_registro(p)>>

\* Mutant: the rows read are dropped, the file rewritten with the new record.
df_final_sin_concat(p) == <<nuevo_registro(p)>>

\* pd.concat([df_existente, nuevo_registro]), or nuevo_registro alone.
df_final(p) ==
    IF df_existente[p].kind = "ok"
    THEN Append(df_existente[p].rows, nuevo_registro(p))
    ELSE <<nuevo_registro(p)>>

\* Mutant: the error of pd.read_excel is not caught in save_to_excel and
\* ends the request at line 126.
ExcelReadRaises(p) ==
    /\ pc[p] = "excel_read"
    /\ df_existente' = [df_existente EXCEPT ![p] = file]
    /\ Called(p, "save_to_excel")
    /\ IF file.kind = "corrupt" THEN Return(p, IndexPage("Error: BadZipFile"))
       ELSE Goto(p, "excel_write")
    /\ UNCHANGED <<now, model_loaded, disk, form, upload, detections, verdict,
                   timestamp, excel_result, sheets_result, rows_before,
                   evalVars>>

\* Lines 313-316 and 324-325: os.path.exists and pd.read_excel.
ExcelRead(p) ==
    /\ pc[p] = "excel_read"
    /\ df_existente' = [df_existente EXCEPT ![p] = file]
    /\ Called(p, "save_to_excel")
    /\ IF file.kind = "corrupt" THEN Goto(p, "excel_backup") ELSE Goto(p, "excel_write")
    /\ UNCHANGED <<now, model_loaded, disk, form, upload, detections, verdict,
                   timestamp, excel_result, sheets_result, rows_before,
                   evalVars>>

\* Mutant: the unreadable file is removed instead of renamed.
ExcelBackupRemoves(p) ==
    /\ pc[p] = "excel_backup"
    /\ \E t \in 0..MaxClock : datetime_now(t)
    /\ file' = Absent
    /\ UNCHANGED backups
    /\ Goto(p, "excel_write")
    /\ UNCHANGED <<model_loaded, images, sheet, form, upload, locals, trace,
                   rows_before, evalVars>>

\* Lines 317-323: the read failed; os.rename to the backup name, any error
\* of the rename passed over.  os.rename fails when the file is gone, and
\* may fail otherwise (permissions; an existing target on Windows); on
\* POSIX it replaces a backup of the same second.
ExcelBackup(p) ==
    /\ pc[p] = "excel_backup"
    /\ \E rename_fails \in BOOLEAN, t \in 0..MaxClock :
          /\ datetime_now(t)
          /\ IF rename_fails \/ file.kind = "absent"
             THEN UNCHANGED <<file, backups>>
             ELSE /\ backups' = {b \in backups : b.name # t}
                                   \cup {[name |-> t, content |-> file]}
                  /\ file' = Absent
    /\ Goto(p, "excel_write")
    /\ UNCHANGED <<model_loaded, images, sheet, form, upload, locals, trace,
                   rows_before, evalVars>>

\* How df_final.to_excel(filename) ends.  It opens the target itself for
\* writing, which empties it, and then writes the workbook into it: it
\* raises before the file is opened (a read-only file), raises after the
\* file was emptied (a full disk), or writes the whole workbook.
WriteOutcomes == {"refused", "broken", "written"}

\* The target after to_excel: as it was, emptied or partly written (no
\* longer a workbook), or the new workbook.
to_excel(target, rows, outcome) ==
    CASE outcome = "refused" -> target
      [] outcome = "broken" -> Corrupt
      [] outcome = "written" -> Workbook(rows)

\* Mutant: the write adds the new record to the rows the file holds now.
ExcelWriteAppends(p) ==
    /\ pc[p] = "excel_write"
    /\ excel_result' = [excel_result EXCEPT ![p] = "True"]
    /\ file' = Workbook(Append(file.rows, nuevo_registro(p)))
    /\ Goto(p, "sheets")
    /\ UNCHANGED <<now, model_loaded, images, backups, sheet, form, upload,
                   detections, verdict, timestamp, df_existente, sheets_result,
                   trace, rows_before, evalVars>>

\* Mutant: after a failed write the remote append is skipped.
ExcelWriteSkipsRemote(p) ==
    /\ pc[p] = "excel_write"
    /\ \E outcome \in WriteOutcomes :
          /\ excel_result' = [excel_result EXCEPT ![p] =
                                  IF outcome = "written" THEN "True" ELSE "False"]
          /\ file' = to_excel(file, df_final(p), outcome)
          /\ IF outcome = "written" THEN Goto(p, "sheets") ELSE Goto(p, "render")
    /\ UNCHANGED <<now, model_loaded, images, backups, sheet, form, upload,
                   detections, verdict, timestamp, df_existente, sheets_result,
                   trace, rows_before, evalVars>>

\* Mutant: the error of the write is not caught in save_to_excel and ends
\* the request at line 126.
ExcelWriteRaises(p) ==
    /\ pc[p] = "excel_write"
    /\ \E outcome \in WriteOutcomes :
          IF outcome # "written"
          THEN /\ excel_result' = [excel_result EXCEPT ![p] = "False"]
               /\ file' = to_excel(file, df_final(p), outcome)
               /\ Return(p, IndexPage("Error: PermissionError"))
          ELSE /\ excel_result' = [excel_result EXCEPT ![p] = "True"]
               /\ file' = to_excel(file, df_final(p), outcome)
               /\ Goto(p, "sheets")
    /\ UNCHANGED <<now, model_loaded, images, backups, sheet, form, upload,
                   detections, verdict, timestamp, df_existente, sheets_result,
                   trace, rows_before, evalVars>>

\* Line 327: df_final.to_excel(filename); an error is caught at line 331
\* and False returned.
ExcelWrite(p) ==
    /\ pc[p] = "excel_write"
    /\ \E outcome \in WriteOutcomes :
          /\ excel_result' = [excel_result EXCEPT ![p] =
                                  IF outcome = "written" THEN "True" ELSE "False"]
          /\ file' = to_excel(file, df_final(p), outcome)
    /\ Goto(p, "sheets")
    /\ UNCHANGED <<now, model_loaded, images, backups, sheet, form, upload,
                   detections, verdict, timestamp, df_existente, sheets_result,
                   trace, rows_before, evalVars>>

(***************************************************************************)
(* save_to_google_sheets (utils.py), called at line 109 of app.py inside   *)
(* its own try.                                                            *)
(***************************************************************************)
\* How the call ends: the library is missing (line 255), no service could
\* be built (line 261), the append request fails (line 292), or the row is
\* appended.
SheetsOutcomes == {"unavailable", "no_service", "api_error", "ok"}

\* Mutant: a failure of the remote append is raised and ends the request at
\* line 126.
SheetsRaises(p) ==
    /\ pc[p] = "sheets"
    /\ \E out \in SheetsOutcomes :
          /\ sheet' = IF out = "ok" THEN Append(sheet, nuevo_registro(p)) ELSE sheet
          /\ sheets_result' = [sheets_result EXCEPT ![p] = IF out = "ok" THEN "True" ELSE "False"]
          /\ IF out = "ok" THEN Goto(p, "render") ELSE Return(p, IndexPage("Error: HttpError"))
    /\ Called(p, "save_to_google_sheets")
    /\ UNCHANGED <<now, model_loaded, images, file, backups, form, upload,
                   detections, verdict, timestamp, df_existente, excel_result,
                   rows_before, evalVars>>

Sheets(p) ==
    /\ pc[p] = "sheets"
    /\ \E out \in SheetsOutcomes :
          /\ sheet' = IF out = "ok" THEN Append(sheet, nuevo_registro(p)) ELSE sheet
          /\ sheets_result' = [sheets_result EXCEPT ![p] = IF out = "ok" THEN "True" ELSE "False"]
    /\ Called(p, "save_to_google_sheets")
    /\ Goto(p, "render")
    /\ UNCHANGED <<now, model_loaded, images, file, backups, form, upload,
                   detections, verdict, timestamp, df_existente, excel_result,
                   rows_before, evalVars>>

(***************************************************************************)
(* Lines 117-124: render_template('results.html', ...).                    *)
(***************************************************************************)
ResultsPage(p) ==
    [page |-> "results.html",
     error |-> "",
     porcentaje |-> verdict[p].porcentaje,
     detectados |-> IF verdict[p].encontrados # <<>> THEN Join(verdict[p].encontrados) ELSE "Ninguno",
     faltantes |-> IF verdict[p].faltantes # <<>> THEN Join(verdict[p].faltantes) ELSE "Ninguno",
     fecha |-> timestamp[p]]

Render(p) ==
    /\ pc[p] = "render"
    /\ Return(p, ResultsPage(p))
    /\ UNCHANGED <<now, model_loaded, disk, form, upload, locals, trace,
                   rows_before, evalVars>>

Next ==
    \E p \in Requests :
          \/ Receive(p)
          \/ Cleanup(p)
          \/ SaveUpload(p)
          \/ Detect(p)
          \/ Evaluate(p)
          \/ ExcelRead(p)
          \/ ExcelBackup(p)
          \/ ExcelWrite(p)
          \/ Sheets(p)
          \/ Render(p)

Spec == Init /\ [][Next]_vars

(***************************************************************************)
(* The same requests served one after the other: a request arrives only    *)
(* when no other is being handled.                                         *)
(***************************************************************************)
ReceiveAlone(p) ==
    /\ \A q \in Requests : pc[q] \in {"idle", "done"}
    /\ Receive(p)

NextSeq ==
    \E p \in Requests :
          \/ ReceiveAlone(p)
          \/ Cleanup(p)
          \/ SaveUpload(p)
          \/ Detect(p)
          \/ Evaluate(p)
          \/ ExcelRead(p)
          \/ ExcelBackup(p)
          \/ ExcelWrite(p)
          \/ Sheets(p)
          \/ Render(p)

SpecSeq == Init /\ [][NextSeq]_vars

(***************************************************************************)
(* The requests served one after the other by a process that may be        *)
(* killed while save_to_excel is in to_excel (line 327): before the target *)
(* is opened, after it was emptied, or after the workbook was written.     *)
(* Every request being handled ends there, with no response.               *)
(***************************************************************************)
Crash(p) ==
    /\ pc[p] = "excel_write"
    /\ \E reached \in WriteOutcomes : file' = to_excel(file, df_final(p), reached)
    /\ pc' = [q \in Requests |-> IF pc[q] \in {"idle", "done"} THEN pc[q] ELSE "crashed"]
    /\ UNCHANGED <<now, model_loaded, images, backups, sheet, form, upload, locals,
                   response, trace, rows_before, evalVars>>

NextCrash ==
    \/ NextSeq
    \/ \E p \in Requests : Crash(p)

SpecCrash == Init /\ [][NextCrash]_vars

(***************************************************************************)
(* calculate_compliance alone, on every short sequence of detected names.  *)
(***************************************************************************)
\* Element names as detect_uniform_elements hands them over: the checklist,
\* a name that is not on it, and one that only contains a checklist name.
EvalNames == SeqToSet(uniform_elements) \cup {"mochila", "cascos"}

\* Every sequence of at most MaxDet names, and every set of checklist items
\* detected once each (up to all 8).
EvalNameSeqs ==
    SeqsUpTo(EvalNames, MaxDet)
    \cup {SelectSeq(uniform_elements, LAMBDA e : e \in S) : S \in SUBSET SeqToSet(uniform_elements)}

EvalInputs ==
    {[i \in 1..Len(names) |-> [element |-> names[i], bbox |-> i]] : names \in EvalNameSeqs}

InitEval ==
    /\ InitPipeline
    /\ model_loaded
    /\ file = Absent
    /\ images \in [Paths -> {NoImage}]
    /\ sheets_env = PipelineEnv
    /\ sheets_log = <<>>
    /\ evalIn \in EvalInputs
    /\ evalOut = NoVerdict

EvalStep ==
    /\ evalOut = NoVerdict
    /\ evalOut' = calculate_compliance(evalIn)
    /\ UNCHANGED <<now, model_loaded, disk, pc, form, upload, locals, response,
                   trace, rows_before, evalIn, sheetsVars>>

\* save_to_excel on that verdict, as line 99 of app.py calls it, with no
\* file yet: the file is written with the one record.
EvalSave ==
    /\ evalOut # NoVerdict
    /\ file = Absent
    /\ file' = to_excel(file,
                        <<Registro("ana", evalOut.encontrados, evalOut.faltantes,
                                   evalOut.porcentaje, now, "acme")>>,
                        "written")
    /\ UNCHANGED <<now, model_loaded, images, backups, sheet, pc, form, upload,
                   locals, response, trace, rows_before, evalVars>>

NextEval == EvalStep \/ EvalSave

SpecEval == InitEval /\ [][NextEval]_vars

(***************************************************************************)
(* save_to_google_sheets alone (utils.py), under every process environment. *)
(***************************************************************************)
\* GOOGLE_SHEETS_AVAILABLE; os.environ.get('GOOGLE_SERVICE_ACCOUNT'): not
\* set, the empty string, text that is no service-account key, or a key;
\* config["google_sheets"]["service_account_file"]: no such file, a file
\* that is no key, or a key.
SheetsEnvs ==
    [available : BOOLEAN,
     payload : {"unset", "empty", "malformed", "valid"},
     key_file : {"missing", "malformed", "valid"}]

\* What a call gave: the credential source read, whether a service was
\* built, whether the append request was sent, and the value returned.
SheetsCallResult(source, service, requested, returned) ==
    [source |-> source, service |-> service, requested |-> requested, returned |-> returned]

\* Mutant: the credential file is looked for first, the environment after.
get_google_sheets_service_archivo_primero(env) ==
    IF ~env.available THEN [service |-> FALSE, source |-> "none"]
    ELSE IF env.key_file # "missing"
    THEN [service |-> env.key_file = "valid", source |-> "file"]
    ELSE IF env.payload \notin {"unset", "empty"}
    THEN [service |-> env.payload = "valid", source |-> "environ"]
    ELSE [service |-> FALSE, source |-> "none"]

\* get_google_sheets_service: None (service FALSE) without the library;
\* the payload of the environment when it is set and not empty, else the
\* credential file; any error of json.loads, from_service_account_info or
\* from_service_account_file is caught at line 245 and None returned.
get_google_sheets_service(env) ==
    IF ~env.available THEN [service |-> FALSE, source |-> "none"]
    ELSE IF env.payload \notin {"unset", "empty"}
    THEN [service |-> env.payload = "valid", source |-> "environ"]
    ELSE IF env.key_file = "missing" THEN [service |-> FALSE, source |-> "file"]
    ELSE [service |-> env.key_file = "valid", source |-> "file"]

\* save_to_google_sheets: False without the library or without a service;
\* else the append request is sent, and an error of it caught at line 292.
save_to_google_sheets(env, append_fails) ==
    IF ~env.available THEN SheetsCallResult("none", FALSE, FALSE, FALSE)
    ELSE LET got == get_google_sheets_service(env)
         IN  IF ~got.service THEN SheetsCallResult(got.source, FALSE, FALSE, FALSE)
             ELSE SheetsCallResult(got.source, TRUE, TRUE, ~append_fails)

\* The record of the calls: casco and polo for ana of acme.
SheetsRecord ==
    Registro("ana", <<"casco", "polo">>,
             <<"botas", "gafas", "guantes", "camisa", "pantalon", "carnet">>,
             25 * Scale, 0, "acme")

InitSheets ==
    /\ InitPipeline
    /\ model_loaded
    /\ file = Absent
    /\ images \in [Paths -> {NoImage}]
    /\ sheets_env \in SheetsEnvs
    /\ sheets_log = <<>>
    /\ evalIn = <<>>
    /\ evalOut = NoVerdict

SheetsCall ==
    /\ Len(sheets_log) < MaxCalls
    /\ \E append_fails \in BOOLEAN :
          LET call == save_to_google_sheets(sheets_env, append_fails)
          IN  /\ sheets_log' = Append(sheets_log, call)
              /\ sheet' = IF call.returned THEN Append(sheet, SheetsRecord) ELSE sheet
    /\ UNCHANGED <<now, model_loaded, images, file, backups, pc, form, upload,
                   locals, response, trace, rows_before, sheets_env, evalIn, evalOut>>

SpecSheets == InitSheets /\ [][SheetsCall]_vars

(***************************************************************************)
(* Properties.                                                             *)
(***************************************************************************)
Count(x, s) == Cardinality({i \in DOMAIN s : s[i] = x})
Has(s, x) == \E i \in DOMAIN s : s[i] = x
Evaluated == evalOut # NoVerdict

\* C1: for every sequence of detected elements (empty, with repeated names,
\* with names that are not on the checklist), each of the 8 checklist items
\* is exactly once in elementos_encontrados or elementos_faltantes taken
\* together, and neither list holds any other name.
C1_Partition ==
    Evaluated =>
        /\ \A i \in DOMAIN uniform_elements :
              Count(uniform_elements[i], evalOut.encontrados)
                  + Count(uniform_elements[i], evalOut.faltantes) = 1
        /\ SeqToSet(evalOut.encontrados) \cup SeqToSet(evalOut.faltantes)
              = SeqToSet(uniform_elements)
        /\ Len(evalOut.encontrados) + Len(evalOut.faltantes) = Len(uniform_elements)

\* A verdict for detections with a repeated checklist name and a name that
\* is not on the checklist.
C1_Witness ==
    /\ Evaluated
    /\ \E i, j \in DOMAIN evalIn :
          /\ i < j
          /\ evalIn[i].element = evalIn[j].element
          /\ Has(uniform_elements, evalIn[i].element)
    /\ \E k \in DOMAIN evalIn : ~Has(uniform_elements, evalIn[k].element)

\* round(x, 1) of a value in thousandths.
RoundOneDecimal(x) == ((x * 10 + Scale \div 2) \div Scale) * (Scale \div 10)

\* C10: the percentage is 100 * |present| / 8 rounded to one decimal, one of
\* 0.0, 12.5, 25.0, ..., 100.0; two present items give 25.0.
C10_Percentage ==
    Evaluated =>
        /\ evalOut.porcentaje * 8 = 100 * Scale * Len(evalOut.encontrados)
        /\ evalOut.porcentaje = RoundOneDecimal(evalOut.porcentaje)
        /\ evalOut.porcentaje \in {k * 12500 : k \in 0..8}
        /\ Len(evalOut.encontrados) = 2 => evalOut.porcentaje = 25 * Scale

\* botas and casco detected, among other names: 25.0.
C10_Witness ==
    /\ Evaluated
    /\ Len(evalIn) = 3
    /\ evalOut.encontrados = <<"botas", "casco">>
    /\ evalOut.porcentaje = 25 * Scale
    /\ FormatPorcentaje(evalOut.porcentaje) = "25.0%"

(***************************************************************************)
(* Properties of the requests.                                             *)
(***************************************************************************)
Done(p) == pc[p] = "done"
Reported(p) == Done(p) /\ response[p].page = "results.html"
\* The request ended with an error: the index page with a message, or an
\* exception that left the handler (the server's error response).
EndedInError(p) == Done(p) /\ response[p].page \in {"index.html", "exception"}
\* The request called `name`.
DidCall(p, name) == Has(trace[p], name)
\* The request made no call that writes a row.
WroteNothing(p) ==
    /\ ~DidCall(p, "save_to_excel")
    /\ ~DidCall(p, "save_to_google_sheets")
    /\ excel_result[p] = "none"
    /\ sheets_result[p] = "none"
\* save_to_excel has returned.
AfterExcel(p) == pc[p] \in {"sheets", "render", "done"}

\* C2: two requests that both read the file before either wrote it, and
\* whose save_to_excel both returned True, leave a file that holds the rows
\* read and the record of one of them only: the other record is lost.
C2_LostUpdate ==
    \A p, q \in Requests :
        (/\ p # q
         /\ excel_result[p] = "True"
         /\ excel_result[q] = "True"
         /\ df_existente[p].kind \in {"ok", "absent"}
         /\ df_existente[q] = df_existente[p])
        => /\ file.kind = "ok"
           /\ file.rows \in {df_final(p), df_final(q)}
           /\ Len(file.rows) = Len(df_existente[p].rows) + 1

\* Both calls returned True, both requests were reported, and the file holds
\* the old row and the record of request 1 but not that of request 2.
C2_Witness ==
    /\ Reported(1) /\ Reported(2)
    /\ excel_result[1] = "True" /\ excel_result[2] = "True"
    /\ df_existente[1] = Workbook(<<OldRow>>)
    /\ df_existente[2] = Workbook(<<OldRow>>)
    /\ nuevo_registro(1) # nuevo_registro(2)
    /\ file = Workbook(<<OldRow, nuevo_registro(1)>>)

\* C3: a failure of save_to_google_sheets does not end the request in an
\* error and changes neither the file nor its backups: the step goes on to
\* the result page, which the request ends with.
C3_RemoteFailureIsLocal ==
    /\ [][\A p \in Requests :
            (pc[p] = "sheets" /\ pc'[p] # "sheets" /\ sheets_result'[p] = "False")
            => /\ pc'[p] = "render"
               /\ file' = file
               /\ backups' = backups
               /\ response'[p] = response[p]]_vars
    /\ [](\A p \in Requests :
            (Done(p) /\ sheets_result[p] = "False") => Reported(p))

\* A reported request whose remote append failed after its local append
\* wrote the row the file ends with.
C3_Witness ==
    \E p \in Requests :
        /\ Reported(p)
        /\ sheets_result[p] = "False"
        /\ excel_result[p] = "True"
        /\ file.kind = "ok"
        /\ file.rows[Len(file.rows)] = nuevo_registro(p)
        /\ df_existente[p] = Workbook(<<OldRow>>)

\* C4: when the write of the tabular file fails, save_to_excel returns False
\* and the request goes on: it is never stuck, ends in no error page, and
\* ends with the result page carrying the verdict computed for it.
C4_LocalFailureStillReported ==
    \A p \in Requests :
        excel_result[p] = "False"
        => /\ AfterExcel(p)
           /\ response[p].page \in {"", "results.html"}
           /\ pc[p] = "sheets" => ENABLED Sheets(p)
           /\ pc[p] = "render" => ENABLED Render(p)
           /\ Done(p) =>
                /\ Reported(p)
                /\ response[p].porcentaje = verdict[p].porcentaje
                /\ response[p].detectados =
                      (IF verdict[p].encontrados = <<>> THEN "Ninguno"
                       ELSE Join(verdict[p].encontrados))
                /\ verdict[p] = calculate_compliance(detections[p].detected_elements)

\* A reported request (casco and polo, 25.0) whose save_to_excel returned False.
C4_Witness ==
    \E p \in Requests :
        /\ Reported(p)
        /\ excel_result[p] = "False"
        /\ response[p].porcentaje = 25 * Scale
        /\ response[p].detectados = "casco, polo"

\* C5: a request whose detection result has total_detections = 0 ends there
\* with the index page: it calls neither calculate_compliance nor
\* save_to_excel nor save_to_google_sheets, and writes no row.
C5_ZeroDetectionsStop ==
    \A p \in Requests :
        (DidCall(p, "detect_uniform_elements") /\ detections[p].total_detections = 0)
        => /\ Done(p)
           /\ response[p].page = "index.html"
           /\ ~DidCall(p, "calculate_compliance")
           /\ WroteNothing(p)

\* predict was called and found nothing, and the request ended with the
\* nothing-detected message.
C5_Witness ==
    \E p \in Requests :
        /\ DidCall(p, "predict")
        /\ detections[p].total_detections = 0
        /\ response[p] = IndexPage("No se detectaron elementos del uniforme.")

\* The step in which save_to_excel of request p writes, or fails to write,
\* after its read of the file failed.
WriteAfterFailedRead(p) ==
    /\ pc[p] = "excel_write"
    /\ pc'[p] = "sheets"
    /\ df_existente[p].kind = "corrupt"

\* C6 as stated: whenever the existing file cannot be read, the append leaves
\* a backup of the old file and a target file holding only the new record.
C6_AsStated ==
    [][\A p \in Requests :
          WriteAfterFailedRead(p)
          => /\ \E b \in backups' : b.content.kind = "corrupt"
             /\ file' = Workbook(<<nuevo_registro(p)>>)]_vars

\* C6, amended: when the existing file cannot be read the append goes on to
\* rename it to a backup named by the time of the rename; the rename either
\* moves the file as it is under that name or, when it fails, changes
\* nothing, and the append goes on either way.  The write that follows
\* leaves only the new record in the target file when it succeeds
\* (save_to_excel returns True); when it fails save_to_excel returns False
\* and the target is as it was, or no longer a readable workbook.
C6_BackupBestEffort ==
    [][\A p \in Requests :
          /\ (pc[p] = "excel_read" /\ pc'[p] # "excel_read" /\ file.kind = "corrupt")
             => pc'[p] = "excel_backup"
          /\ (pc[p] = "excel_backup" /\ pc'[p] # "excel_backup")
             => /\ pc'[p] = "excel_write"
                /\ \/ file' = file /\ backups' = backups
                   \/ /\ file.kind # "absent"
                      /\ file' = Absent
                      /\ [name |-> now', content |-> file] \in backups'
          /\ WriteAfterFailedRead(p)
             => IF excel_result'[p] = "True"
                THEN file' = Workbook(<<nuevo_registro(p)>>)
                ELSE excel_result'[p] = "False" /\ file' \in {file, Corrupt}]_vars

\* The unreadable file is in a backup and the target holds only the record
\* of the request that found it unreadable.
C6_Witness ==
    \E p \in Requests :
        /\ df_existente[p] = Corrupt
        /\ excel_result[p] = "True"
        /\ file = Workbook(<<nuevo_registro(p)>>)
        /\ \E b \in backups : b.content = Corrupt /\ b.name <= now

\* Requests p and q had the same form, the same upload and the same answer
\* of the detector, and both were reported.
SameRuns(p, q) ==
    /\ p < q
    /\ Reported(p) /\ Reported(q)
    /\ form[p] = form[q]
    /\ upload[p] = upload[q]
    /\ detections[p] = detections[q]

SameVerdict(p, q) ==
    /\ verdict[p] = verdict[q]
    /\ response[p].porcentaje = response[q].porcentaje
    /\ response[p].detectados = response[q].detectados
    /\ response[p].faltantes = response[q].faltantes

C8_NoExceptionEscapes ==
    \A p \in Requests : response[p].page # "exception"

\* The request was received with an input the claim calls invalid: a field
\* empty or longer than 100 characters, no image, a format that is not
\* allowed, or an image that cannot be read.
InvalidInput(p) ==
    /\ pc[p] # "idle"
    /\ \/ form[p].aliado = ""
       \/ form[p].nombre_tecnico = ""
       \/ Len(form[p].aliado) > MAX_FIELD_LEN
       \/ Len(form[p].nombre_tecnico) > MAX_FIELD_LEN
       \/ ~upload[p].present
       \/ upload[p].filename = EmptyName
       \/ ~allowed_file(upload[p].filename)
       \/ ~upload[p].content.readable

\* C9: a request with an invalid input ends with an error, never calls the
\* detector's predict and writes no row to either sink.
C9_InvalidInputRejected ==
    \A p \in Requests :
        InvalidInput(p)
        => /\ ~DidCall(p, "predict")
           /\ WroteNothing(p)
           /\ Done(p) => EndedInError(p)

(***************************************************************************)
(* Properties of calculate_compliance as a function of the detections.     *)
(***************************************************************************)
\* s without its i-th element.
Remove(s, i) == SubSeq(s, 1, i - 1) \o SubSeq(s, i + 1, Len(s))

\* Every reordering of s.
RECURSIVE Reorderings(_)
Reorderings(s) ==
    IF Len(s) = 0 THEN {<<>>}
    ELSE UNION {{<<s[i]>> \o t : t \in Reorderings(Remove(s, i))} : i \in 1..Len(s)}

\* The position of a checklist item in the checklist.
ChecklistIndex(e) == CHOOSE k \in DOMAIN uniform_elements : uniform_elements[k] = e

\* The list holds checklist items only, each before the items that follow
\* it in the checklist.
InChecklistOrder(list) ==
    /\ \A i \in DOMAIN list : Has(uniform_elements, list[i])
    /\ \A i, j \in DOMAIN list :
          i < j => ChecklistIndex(list[i]) < ChecklistIndex(list[j])

\* C11: calculate_compliance gives every reordering of the detections the
\* same list of present items and the same list of missing items, and both
\* lists are in checklist order, whatever the order of the detections.
C11_OrderIndependent ==
    Evaluated =>
        /\ \A d \in Reorderings(evalIn) :
              LET reordered == calculate_compliance(d)
              IN  /\ reordered.encontrados = evalOut.encontrados
                  /\ reordered.faltantes = evalOut.faltantes
        /\ InChecklistOrder(evalOut.encontrados)
        /\ InChecklistOrder(evalOut.faltantes)

\* polo detected before casco and casco before botas: the present items
\* are botas, casco, polo.
C11_Witness ==
    /\ Evaluated
    /\ [i \in DOMAIN evalIn |-> evalIn[i].element] = <<"polo", "casco", "botas">>
    /\ evalOut.encontrados = <<"botas", "casco", "polo">>
    /\ evalOut.faltantes = <<"gafas", "guantes", "camisa", "pantalon", "carnet">>

\* s with x put in after its first k elements.
InsertAt(s, k, x) == SubSeq(s, 1, k) \o <<x>> \o SubSeq(s, k + 1, Len(s))

\* `name` is among the detected names, letter for letter.
Detected(name) == \E k \in DOMAIN evalIn : evalIn[k].element = name

\* C12: a checklist item is present exactly when its name is, letter for
\* letter, among the detected names; one more detection, anywhere in the
\* sequence, of a name already detected or of a name that is not on the
\* checklist changes neither present, missing nor the percentage.
C12_VerbatimMatch ==
    Evaluated =>
        /\ \A i \in DOMAIN uniform_elements :
              Has(evalOut.encontrados, uniform_elements[i]) <=> Detected(uniform_elements[i])
        /\ \A x \in EvalNames :
              (Detected(x) \/ ~Has(uniform_elements, x))
              => \A k \in 0..Len(evalIn) :
                    calculate_compliance(InsertAt(evalIn, k, [element |-> x, bbox |-> 0]))
                        = evalOut

\* casco detected twice, with cascos between: casco alone is present, 12.5.
C12_Witness ==
    /\ Evaluated
    /\ [i \in DOMAIN evalIn |-> evalIn[i].element] = <<"casco", "cascos", "casco">>
    /\ evalOut.encontrados = <<"casco">>
    /\ evalOut.porcentaje = 12500

(***************************************************************************)
(* The record written for a verdict.                                       *)
(***************************************************************************)
\* The percentage of k present items, as text with one decimal.
PercentTexts ==
    <<"0.0%", "12.5%", "25.0%", "37.5%", "50.0%", "62.5%", "75.0%", "87.5%", "100.0%">>

\* The record save_to_excel wrote for the verdict.
Saved == Evaluated /\ file.kind = "ok"

\* C13: the row written to the tabular file for a verdict has, under "Tiene
\* del uniforme", the present items joined by ", " in checklist order, or
\* "Ninguno" when there is none; under "Le falta tener" the missing items
\* joined the same way, or "Completo" when there is none; and under
\* "Porcentaje" the percentage with one decimal and a % sign.  casco and polo
\* give "casco, polo", the other six items, and "25.0%".
C13_RowOfVerdict ==
    Saved =>
        LET row == file.rows[Len(file.rows)]
            present == evalOut.encontrados
            missing == evalOut.faltantes
        IN  /\ Len(file.rows) = 1
            /\ InChecklistOrder(present) /\ InChecklistOrder(missing)
            /\ row.Tiene = (IF present = <<>> THEN "Ninguno" ELSE Join(present))
            /\ row.Falta = (IF missing = <<>> THEN "Completo" ELSE Join(missing))
            /\ row.Porcentaje = PercentTexts[Len(present) + 1]
            /\ present = <<"casco", "polo">> =>
                  /\ row.Tiene = "casco, polo"
                  /\ row.Falta = "botas, gafas, guantes, camisa, pantalon, carnet"
                  /\ row.Porcentaje = "25.0%"
            /\ Len(present) = Len(uniform_elements) =>
                  /\ row.Tiene = "botas, gafas, guantes, casco, camisa, polo, pantalon, carnet"
                  /\ row.Falta = "Completo"
                  /\ row.Porcentaje = "100.0%"
            /\ present = <<>> =>
                  /\ row.Tiene = "Ninguno"
                  /\ row.Falta = "botas, gafas, guantes, casco, camisa, polo, pantalon, carnet"
                  /\ row.Porcentaje = "0.0%"

\* polo detected before casco: the row has "casco, polo" and "25.0%".
C13_Witness ==
    /\ Saved
    /\ [i \in DOMAIN evalIn |-> evalIn[i].element] = <<"polo", "casco">>
    /\ file.rows[1].Tiene = "casco, polo"
    /\ file.rows[1].Porcentaje = "25.0%"

(***************************************************************************)
(* The tabular file.                                                       *)
(***************************************************************************)
\* C14: after a crash of the process while save_to_excel was writing the
\* file, the file holds the rows it had and the new row, or exactly what
\* it held before: it is never left emptied or partly written.
C14_CrashLeavesOldOrNew ==
    \A p \in Requests :
        (pc[p] = "crashed" /\ df_existente[p].kind = "ok")
        => file \in {df_existente[p], Workbook(Append(df_existente[p].rows, nuevo_registro(p)))}

\* The requests whose save_to_excel returned True, in the order they ran.
Appended == SelectSeq(<<1, 2>>, LAMBDA p : excel_result[p] = "True")

Stages ==
    <<"detect_uniform_elements", "predict", "calculate_compliance",
      "save_to_excel", "save_to_google_sheets">>

IsPrefix(s, t) == Len(s) <= Len(t) /\ s = SubSeq(t, 1, Len(s))

\* C16: a request with at least one detection runs detect, evaluate, the
\* local append, the remote append and the report in this order, each once:
\* the remote append is called only after save_to_excel has returned, it is
\* called whether that returned True or False, and the request ends
\* reported having made each call exactly once.
C16_StageOrder ==
    \A p \in Requests :
        detections[p].total_detections > 0
        => /\ IsPrefix(trace[p], Stages)
           /\ DidCall(p, "save_to_google_sheets") => excel_result[p] \in {"True", "False"}
           /\ excel_result[p] \in {"True", "False"} => AfterExcel(p)
           /\ pc[p] \in {"render", "done"} => DidCall(p, "save_to_google_sheets")
           /\ sheets_result[p] # "none" <=> DidCall(p, "save_to_google_sheets")
           /\ Done(p) => Reported(p) /\ trace[p] = Stages
           /\ ~Done(p) => response[p] = NoResponse

\* A reported request that made the five calls, whose local append returned
\* False and whose remote append returned True.
C16_Witness ==
    \E p \in Requests :
        /\ Reported(p)
        /\ trace[p] = Stages
        /\ excel_result[p] = "False"
        /\ sheets_result[p] = "True"
        /\ sheet # <<>>

(***************************************************************************)
(* save_to_excel as a boundary.                                            *)
(***************************************************************************)
InSaveToExcel(p) == pc[p] \in {"excel_read", "excel_backup", "excel_write"}

\* A step of save_to_excel: it goes on inside the call or returns to line
\* 107 of app.py with True or False, the request not ended; it returns True
\* only when the write left the workbook it meant to write.
ExcelStepContained(p) ==
    (InSaveToExcel(p) /\ pc'[p] # pc[p])
    => /\ pc'[p] \in {"excel_backup", "excel_write", "sheets"}
       /\ response'[p] = response[p]
       /\ IF pc'[p] = "sheets"
          THEN /\ excel_result'[p] \in {"True", "False"}
               /\ excel_result'[p] = "True" => file' = Workbook(df_final(p))
               /\ file' \notin {file, Workbook(df_final(p))} => excel_result'[p] = "False"
          ELSE excel_result'[p] = "none"

\* C17 as stated: no exception leaves save_to_excel, and every write,
\* permission or parse error makes it return False.
C17_AsStated ==
    [][\A p \in Requests :
          /\ ExcelStepContained(p)
          /\ (pc[p] = "excel_write" /\ pc'[p] = "sheets" /\ df_existente[p].kind = "corrupt")
             => excel_result'[p] = "False"]_vars

\* C17, amended: no exception leaves save_to_excel; every error of the
\* write is turned into the return value False, and True is returned only
\* when the target file exists, written, after the write.  An existing file
\* that cannot be parsed is no failure: the call goes on to the backup and
\* the write, and returns what the write gives.
C17_ErrorsBecomeFalse ==
    [][\A p \in Requests :
          /\ ExcelStepContained(p)
          /\ (pc[p] = "excel_read" /\ pc'[p] # "excel_read" /\ file.kind = "corrupt")
             => pc'[p] = "excel_backup"]_vars

\* save_to_excel returned False having left the file emptied, and the
\* request was reported.
C17_Witness ==
    \E p \in Requests :
        /\ excel_result[p] = "False"
        /\ df_existente[p] = Workbook(<<OldRow>>)
        /\ file = Corrupt
        /\ Reported(p)

(***************************************************************************)
(* The detector unavailable.                                               *)
(***************************************************************************)
DetectStep(p) == pc[p] = "detect" /\ pc'[p] # "detect"

\* The saved image passes the checks of lines 139-143.
PathChecked(p) ==
    images[uniforme_path(p)].exists /\ ValidImageFormat(uniforme_path(p))

\* In this step predict was called on an image with elements to detect
\* and the result is empty: the call raised.
PredictRaised(p) ==
    /\ DidCall(p, "predict")'
    /\ upload[images[uniforme_path(p)].owner].content.classes # <<>>
    /\ detections'[p].total_detections = 0

\* The request ended as one in which nothing was detected, no row written.
EndsNothingDetected(p) ==
    /\ detections'[p] = EmptyResult
    /\ pc'[p] = "done"
    /\ response'[p] = IndexPage("No se detectaron elementos del uniforme.")
    /\ WroteNothing(p)'
    /\ file' = file /\ sheet' = sheet

\* C18 as stated: whenever the model is unset or predict raises,
\* detect_uniform_elements returns the empty result and the request ends
\* with the nothing-detected outcome, no row written.
C18_AsStated ==
    [][\A p \in Requests :
          (DetectStep(p) /\ (~model_loaded \/ PredictRaised(p)))
          => EndsNothingDetected(p)]_vars

\* C18, amended: when the saved image passes the path checks of
\* detect_uniform_elements (it exists and its name ends in .jpg, .jpeg, .png
\* or .bmp) and the model is unset or predict raises, the function returns
\* the empty result and the request ends with the nothing-detected outcome,
\* no row written.
C18_UnavailableIsNothing ==
    [][\A p \in Requests :
          (DetectStep(p) /\ PathChecked(p) /\ (~model_loaded \/ PredictRaised(p)))
          => EndsNothingDetected(p)]_vars

\* With the model unset, a request whose image shows casco and polo ended
\* with the nothing-detected message, predict never called.
C18_Witness ==
    \E p \in Requests :
        /\ ~model_loaded
        /\ upload[p].content.classes = <<"Casco", "polo">>
        /\ DidCall(p, "detect_uniform_elements")
        /\ ~DidCall(p, "predict")
        /\ response[p] = IndexPage("No se detectaron elementos del uniforme.")

(***************************************************************************)
(* The credentials of the remote sink.                                     *)
(***************************************************************************)
\* GOOGLE_SERVICE_ACCOUNT is set to a text that is not empty.
PayloadSet == sheets_env.payload \notin {"unset", "empty"}

\* Neither the payload of the environment nor the credential file gives
\* credentials.
NeitherResolves == sheets_env.payload # "valid" /\ sheets_env.key_file # "valid"

\* C19: in save_to_google_sheets a credential payload set in the process
\* environment is used before, and instead of, the configured credential
\* file; and when neither gives credentials every call returns False
\* without sending the append request.
C19_CredentialOrder ==
    \A i \in DOMAIN sheets_log :
        LET call == sheets_log[i]
        IN  /\ (sheets_env.available /\ PayloadSet) => call.source = "environ"
            /\ (sheets_env.available /\ ~PayloadSet) => call.source = "file"
            /\ call.requested => call.service
            /\ call.returned => call.requested
            /\ NeitherResolves =>
                  /\ ~call.returned
                  /\ ~call.requested
                  /\ sheet = <<>>

\* With a key in the environment and another in the credential file, two
\* calls used the environment and each appended the row.
C19_Witness ==
    /\ sheets_env = [available |-> TRUE, payload |-> "valid", key_file |-> "valid"]
    /\ Len(sheets_log) = 2
    /\ \A i \in DOMAIN sheets_log : sheets_log[i] = SheetsCallResult("environ", TRUE, TRUE, TRUE)
    /\ sheet = <<SheetsRecord, SheetsRecord>>

\* C20: when the target file does not exist as the append begins, it is
\* seeded (a copy of the fallback file, or a workbook with the header and
\* no row), so that a readable file exists before the new record is written.
C20_SeededBeforeAppend ==
    \A p \in Requests :
        (pc[p] = "excel_write" /\ df_existente[p].kind = "absent")
        => file.kind = "ok"

(***************************************************************************)
(* The image of a request.                                                 *)
(***************************************************************************)
\* C21: the image a request gives to the detector is the one it uploaded:
\* from its save to its detection the file at its path exists and holds
\* its own upload, whatever the other requests save or clean up.
C21_OwnImageDetected ==
    \A p \in Requests :
        pc[p] = "detect"
        => /\ images[uniforme_path(p)].exists
           /\ images[uniforme_path(p)].owner = p

(***************************************************************************)
(* Detections that are all off the checklist.                              *)
(***************************************************************************)
\* The detection of the request found elements, none of them on the checklist.
OffChecklist(p) ==
    /\ detections[p].total_detections > 0
    /\ \A i \in DOMAIN detections[p].detected_elements :
          ~Has(uniform_elements, detections[p].detected_elements[i].element)

\* The row of a verdict with nothing present.
IsNoneRow(row) ==
    /\ row.Tiene = "Ninguno"
    /\ row.Falta = "botas, gafas, guantes, casco, camisa, polo, pantalon, carnet"
    /\ row.Porcentaje = "0.0%"

\* Such a request is not stopped after the detection; once evaluated its
\* verdict is no present item, the 8 items missing, 0; it ends reported,
\* the remote append called.
NotAborted(p) ==
    /\ pc[p] # "done" => response[p] = NoResponse
    /\ DidCall(p, "calculate_compliance") =>
          /\ verdict[p].encontrados = <<>>
          /\ verdict[p].faltantes = uniform_elements
          /\ verdict[p].porcentaje = 0
    /\ Done(p) =>
          /\ Reported(p)
          /\ response[p].porcentaje = 0
          /\ response[p].detectados = "Ninguno"
          /\ DidCall(p, "save_to_excel")
          /\ DidCall(p, "save_to_google_sheets")
          /\ sheets_result[p] \in {"True", "False"}

\* C22 as stated: a request whose detections are all off the checklist is
\* not aborted, and ends reported with its row appended to the tabular file.
C22_AsStated ==
    \A p \in Requests :
        OffChecklist(p)
        => /\ NotAborted(p)
           /\ Done(p) => excel_result[p] = "True"

\* C22, amended: a request whose detections are all off the checklist is
\* not aborted: it is evaluated with no present item and percentage 0, the
\* local append is called with the one row ("Ninguno", the 8 items, "0.0%"),
\* which is added to the rows read when save_to_excel returns True, the
\* remote append is called, and the request ends reported.
C22_OffChecklistReported ==
    /\ [][\A p \in Requests :
            (OffChecklist(p) /\ pc[p] = "excel_write" /\ pc'[p] # "excel_write")
            => /\ IsNoneRow(nuevo_registro(p))
               /\ excel_result'[p] \in {"True", "False"}
               /\ excel_result'[p] = "True" =>
                     /\ file'.kind = "ok"
                     /\ Len(file'.rows) = Len(df_existente[p].rows) + 1
                     /\ file'.rows[Len(file'.rows)] = nuevo_registro(p)]_vars
    /\ [](\A p \in Requests : OffChecklist(p) => NotAborted(p))

\* A reported request in whose image only a mochila was detected: 0, and
\* its row is the last of the file.
C22_Witness ==
    \E p \in Requests :
        /\ Reported(p)
        /\ upload[p].content.classes = <<"mochila">>
        /\ OffChecklist(p)
        /\ excel_result[p] = "True"
        /\ file.kind = "ok"
        /\ file.rows[Len(file.rows)] = nuevo_registro(p)
        /\ IsNoneRow(file.rows[Len(file.rows)])
        /\ sheets_result[p] = "True"

====
